---------------------------- MODULE Spec2Model ----------------------------
(***************************************************************************)
(* Model of app.py: the /chat request handler (validation, keyword         *)
(* classification, SIGALRM deadline, nutrition lookup with generative      *)
(* fallback, error handling) and the pure formatter clean_response.        *)
(*                                                                         *)
(* Text is a sequence of one-character strings.  The process-wide alarm is *)
(* one variable; time is abstract: a pending alarm may expire at any       *)
(* point, since every step of a request can take arbitrarily long.         *)
(***************************************************************************)
EXTENDS Integers, Sequences, FiniteSets, TLC

VARIABLES
    pc,          \* per request: the line of chat()/get_food_data() about to run
    body,        \* per request: request.json
    user_input,  \* per request: data.get("message", "")
    food_data,   \* per request: value returned by get_food_data
    reply,       \* per request: the local variable reply
    pending,     \* per request: what the try statement is about to return/raise
    outcome,     \* per request: how chat() ended
    response,    \* per request: the "reply" text of the JSON response
    alarm,       \* the process-wide SIGALRM timer: NoAlarm or the request that armed it
    nutCalls,    \* history: requests.get calls issued by the request
    genCalls,    \* history: model.generate_content calls issued by the request
    armed,       \* history: the request executed signal.alarm(15)
    expiredAt,   \* history: pc at which a TimeoutException was raised in the request
    branch,      \* history: branch chosen at line 105
    lookup,      \* history: what get_food_data returned to chat
    genRaised,   \* history: generate_content raised an ordinary exception
    misfire,     \* history: an alarm expired outside the request that armed it
    disturbed,   \* history: per request, its pending alarm was re-armed or cancelled by another
    fin,         \* formatter harness: argument of clean_response
    fout,        \* formatter harness: value returned by clean_response
    fpc          \* formatter harness: "input" | "done" | "off"

handlerVars == <<pc, body, user_input, food_data, reply, pending, outcome,
                 response, alarm, nutCalls, genCalls, armed, expiredAt,
                 branch, lookup, genRaised, misfire, disturbed>>
fmtVars == <<fin, fout, fpc>>
vars == <<pc, body, user_input, food_data, reply, pending, outcome,
          response, alarm, nutCalls, genCalls, armed, expiredAt,
          branch, lookup, genRaised, misfire, disturbed, fin, fout, fpc>>

---------------------------------------------------------------------------
(* Bounds of the model *)

\* number of request slots
NReq == 2
\* longest exhaustively enumerated formatter input
MaxShortLen == 3

(* Program constants *)

\* len(text) > 250, text[:250]
MaxReplyLen == 250
\* text[-20:]
TailWindow == 20

---------------------------------------------------------------------------
(* Characters and text *)

UpperCase == <<"A","B","C","D","E","F","G","H","I","J","K","L","M",
               "N","O","P","Q","R","S","T","U","V","W","X","Y","Z">>
LowerCase == <<"a","b","c","d","e","f","g","h","i","j","k","l","m",
               "n","o","p","q","r","s","t","u","v","w","x","y","z">>

\* str.lower() on one character
LowerChar(c) ==
    IF \E i \in 1..26 : UpperCase[i] = c
    THEN LowerCase[CHOOSE i \in 1..26 : UpperCase[i] = c]
    ELSE c

\* a comparison that forgets .lower(): the message is matched as typed
LowerForgotten(s) == s

\* str.lower()
Lower(s) == [i \in 1..Len(s) |-> LowerChar(s[i])]

\* Python "w in s" for strings: substring search
Contains(s, w) ==
    \E i \in 1..(Len(s) - Len(w) + 1) : SubSeq(s, i, i + Len(w) - 1) = w

\* characters removed by str.strip()
Whitespace == {" ", "\n", "\t", "\r", "\f"}

\* first position at or after i whose character is in C, Len(s) + 1 if none
NextIn(s, C, i) ==
    CHOOSE j \in i..(Len(s) + 1) :
        /\ (j = Len(s) + 1 \/ s[j] \in C)
        /\ \A k \in i..(j - 1) : s[k] \notin C

\* str.lstrip()
LStrip(s) ==
    LET n == CHOOSE j \in 1..(Len(s) + 1) :
                 /\ (j = Len(s) + 1 \/ s[j] \notin Whitespace)
                 /\ \A k \in 1..(j - 1) : s[k] \in Whitespace
    IN  SubSeq(s, n, Len(s))

\* str.rstrip()
RStrip(s) ==
    LET n == CHOOSE j \in 0..Len(s) :
                 /\ (j = 0 \/ s[j] \notin Whitespace)
                 /\ \A k \in (j + 1)..Len(s) : s[k] \in Whitespace
    IN  SubSeq(s, 1, n)

\* str.strip()
Strip(s) == RStrip(LStrip(s))

\* does delimiter d occur in s at position i
At(s, d, i) ==
    /\ i + Len(d) - 1 <= Len(s)
    /\ SubSeq(s, i, i + Len(d) - 1) = d

\* the lazy group (.*?) followed by d: position of the first d at or after j
\* that no newline precedes ("." does not match a newline), 0 if none
FindClose(s, d, j) ==
    LET stops == {k \in j..Len(s) : At(s, d, k) \/ s[k] = "\n"}
    IN  IF stops = {} THEN 0
        ELSE LET m == CHOOSE k \in stops : \A x \in stops : k <= x
             IN  IF At(s, d, m) THEN m ELSE 0

\* re.sub(d (.*?) d, \1, s) from position i on: leftmost non-overlapping
\* matches; text that cannot start a match (no d[1]) is copied through
RECURSIVE UnwrapFrom(_, _, _)
UnwrapFrom(s, d, i) ==
    IF i > Len(s) THEN <<>>
    ELSE LET n == NextIn(s, {d[1]}, i)
         IN  IF n > i THEN SubSeq(s, i, n - 1) \o UnwrapFrom(s, d, n)
             ELSE IF At(s, d, i) /\ FindClose(s, d, i + Len(d)) # 0
             THEN LET j == FindClose(s, d, i + Len(d))
                  IN  SubSeq(s, i + Len(d), j - 1) \o UnwrapFrom(s, d, j + Len(d))
             ELSE <<s[i]>> \o UnwrapFrom(s, d, i + 1)

\* str.replace(d, "") from position i on
RECURSIVE RemoveFrom(_, _, _)
RemoveFrom(s, d, i) ==
    IF i > Len(s) THEN <<>>
    ELSE LET n == NextIn(s, {d[1]}, i)
         IN  IF n > i THEN SubSeq(s, i, n - 1) \o RemoveFrom(s, d, n)
             ELSE IF At(s, d, i) THEN RemoveFrom(s, d, i + Len(d))
             ELSE <<s[i]>> \o RemoveFrom(s, d, i + 1)

\* re.sub(r'\n+', ' ', s) from position i on: each maximal run of newlines
\* becomes one space
RECURSIVE CollapseNewlinesFrom(_, _)
CollapseNewlinesFrom(s, i) ==
    IF i > Len(s) THEN <<>>
    ELSE LET n == NextIn(s, {"\n"}, i)
         IN  IF n > i THEN SubSeq(s, i, n - 1) \o CollapseNewlinesFrom(s, n)
             ELSE LET e == CHOOSE j \in i..(Len(s) + 1) :
                               /\ (j = Len(s) + 1 \/ s[j] # "\n")
                               /\ \A k \in i..(j - 1) : s[k] = "\n"
                  IN  <<" ">> \o CollapseNewlinesFrom(s, e)

\* str.rfind(c) (1-based; 0 when absent)
RFind(s, c) ==
    IF \E i \in 1..Len(s) : s[i] = c
    THEN CHOOSE i \in 1..Len(s) : s[i] = c /\ \A k \in (i + 1)..Len(s) : s[k] # c
    ELSE 0

\* text[-20:]
TailOf(s) ==
    IF Len(s) <= TailWindow THEN s ELSE SubSeq(s, Len(s) - TailWindow + 1, Len(s))

HasChar(s, c) == \E i \in 1..Len(s) : s[i] = c

FallbackText ==
    <<"S","o","r","r","y",","," ","I"," ","c","o","u","l","d","n","'","t"," ",
      "f","i","n","d"," ","i","n","f","o","r","m","a","t","i","o","n",".">>

\* lines 48-52 of clean_response: strip, unwrap emphasis, drop asterisks,
\* newline runs to one space, strip
CleanBody(text) ==
    LET t1 == Strip(text)
        t2 == UnwrapFrom(t1, <<"*", "*">>, 1)
        t3 == UnwrapFrom(t2, <<"*">>, 1)
        t4 == RemoveFrom(RemoveFrom(t3, <<"*", "*">>, 1), <<"*">>, 1)
    IN  Strip(CollapseNewlinesFrom(t4, 1))

\* lines 56-59: the first of '.', '!', '?' present in the last 20 characters
\* decides the cut, at its last occurrence
CutAtTerminator(t) ==
    IF HasChar(TailOf(t), ".") THEN SubSeq(t, 1, RFind(t, "."))
    ELSE IF HasChar(TailOf(t), "!") THEN SubSeq(t, 1, RFind(t, "!"))
    ELSE IF HasChar(TailOf(t), "?") THEN SubSeq(t, 1, RFind(t, "?"))
    ELSE t

\* lines 54-59
Truncate(t) ==
    IF Len(t) > MaxReplyLen
    THEN CutAtTerminator(SubSeq(t, 1, MaxReplyLen))
    ELSE t

\* clean_response(text)
CleanResponse(text) ==
    IF text = <<>> THEN FallbackText ELSE Truncate(CleanBody(text))

---------------------------------------------------------------------------
(* Values of the handler *)

Reqs == 1..NReq

NoAlarm == 0

\* a JSON value found under "message" (or its absence)
Absent     == [t |-> "absent", s |-> <<>>, n |-> 0]
JsonNull   == [t |-> "null",   s |-> <<>>, n |-> 0]
JsonNum(k) == [t |-> "num",    s |-> <<>>, n |-> k]
JsonStr(x) == [t |-> "str",    s |-> x,    n |-> 0]
Unset      == [t |-> "unset",  s |-> <<>>, n |-> 0]

MessageTexts ==
    { <<>>,
      <<"H","i">>,
      <<"F","A","T","?">>,
      <<"F","a","t","i","g","u","e">>,
      <<"c","a","r","b">>,
      <<"f","o","o","d">>,
      <<"p","r","o","t","e","i","n">> }

MessageValues ==
    {Absent, JsonNull, JsonNum(0), JsonNum(7)} \cup {JsonStr(x) : x \in MessageTexts}

\* request.json: a JSON object with an optional "message", or another JSON value
Bodies ==
    {[kind |-> "object", msg |-> m] : m \in MessageValues}
        \cup {[kind |-> "null", msg |-> Absent], [kind |-> "array", msg |-> Absent]}

\* the bodies drawn when requests overlap: an empty message, a direct
\* question and a nutrition question
OverlapBodies ==
    {[kind |-> "object", msg |-> JsonStr(x)] :
        x \in {<<>>, <<"H","i">>, <<"p","r","o","t","e","i","n">>}}

NoBody == [kind |-> "none", msg |-> Absent]

\* the value None and JSON objects of the nutrition backend; quantities in tenths
None == [isNone |-> TRUE, has |-> {}, numeric |-> TRUE,
         calories |-> 0, procnt |-> 0, fat |-> 0, chocdf |-> 0]

Dict(keys, num, cal, p, f, c) ==
    [isNone |-> FALSE, has |-> keys, numeric |-> num,
     calories |-> cal, procnt |-> p, fat |-> f, chocdf |-> c]

AllKeys == {"calories", "totalNutrients", "PROCNT", "FAT", "CHOCDF"}

FoodJsons ==
    { Dict({}, TRUE, 0, 0, 0, 0),
      Dict({"calories"}, TRUE, 1234, 0, 0, 0),
      Dict(AllKeys, TRUE, 1305, 27, 3, 282),
      Dict(AllKeys, TRUE, 1315, 120, 45, 0),
      Dict({"totalNutrients", "FAT"}, TRUE, 0, 0, 9, 0),
      Dict(AllKeys, FALSE, 0, 0, 0, 0) }

\* what requests.get(...) can do: raise, or answer with a status and a body
\* that res.json() decodes or not
HttpResults ==
    {[raises |-> TRUE, status |-> 0, decodes |-> FALSE, json |-> None]}
        \cup {[raises |-> FALSE, status |-> 500, decodes |-> FALSE, json |-> None]}
        \cup {[raises |-> FALSE, status |-> 200, decodes |-> FALSE, json |-> None]}
        \cup {[raises |-> FALSE, status |-> 200, decodes |-> TRUE, json |-> j] :
                 j \in FoodJsons}

\* what model.generate_content(...).text can return
GenTexts ==
    { <<>>,
      <<"O","k",".">>,
      <<"*","*","H","i","*","*","\n","\n","y","o","u">>,
      <<"a","\n"," ","\n","b">> }

---------------------------------------------------------------------------
(* Pure parts of chat() *)

\* a validation that only rejects a missing value ("if user_input is None")
FalsyNoneOnly(v) == v.t \notin {"str", "num"}

\* "not user_input" (line 97)
Falsy(v) ==
    CASE v.t = "str"  -> v.s = <<>>
      [] v.t = "num"  -> v.n = 0
      [] OTHER        -> TRUE

\* the keyword list of lines 105-106
Keywords ==
    { <<"c","a","l","o","r","i","e">>,
      <<"n","u","t","r","i","t","i","o","n">>,
      <<"p","r","o","t","e","i","n">>,
      <<"f","a","t">>,
      <<"c","a","r","b","s">>,
      <<"v","i","t","a","m","i","n">> }

\* any(word in user_input.lower() for word in [...]) (lines 105-106)
IsNutritionQuery(x) == \E w \in Keywords : Contains(Lower(x), w)

\* a record test that forgets the "totalNutrients" check ("if food_data:")
RecordFoundAnyDict(fd) == ~fd.isNone /\ fd.has # {}

\* food_data and "totalNutrients" in food_data (line 110)
RecordFound(fd) == ~fd.isNone /\ fd.has # {} /\ "totalNutrients" \in fd.has

\* dict.get(key, 0)
GetOr0(fd, key, val) == IF key \in fd.has THEN val ELSE 0

DigitChars == <<"0","1","2","3","4","5","6","7","8","9">>

RECURSIVE Digits(_)
Digits(n) ==
    IF n < 10 THEN <<DigitChars[n + 1]>>
    ELSE Digits(n \div 10) \o <<DigitChars[(n % 10) + 1]>>

\* format(x, ".0f") of x = t/10: round to nearest, ties to even
Fmt0(t) ==
    LET q == t \div 10
        r == t % 10
    IN  Digits(IF r > 5 \/ (r = 5 /\ q % 2 = 1) THEN q + 1 ELSE q)

\* format(x, ".1f") of x = t/10
Fmt1(t) == Digits(t \div 10) \o <<".">> \o <<DigitChars[(t % 10) + 1]>>

\* the f-string of lines 111-116 ("<bowl>" stands for the emoji)
FormatReply(fd) ==
    <<"<bowl>", " ">> \o Fmt0(GetOr0(fd, "calories", fd.calories))
        \o <<" ","k","c","a","l"," ","|"," ","P","r","o","t","e","i","n",":"," ">>
        \o Fmt1(GetOr0(fd, "PROCNT", fd.procnt))
        \o <<" ","g"," ","|"," ","F","a","t",":"," ">>
        \o Fmt1(GetOr0(fd, "FAT", fd.fat))
        \o <<" ","g"," ","|"," ","C","a","r","b","s",":"," ">>
        \o Fmt1(GetOr0(fd, "CHOCDF", fd.chocdf))
        \o <<" ","g">>

\* get_food_data's value for one outcome of requests.get (lines 75-80)
FoodDataOf(h) ==
    IF ~h.raises /\ h.status = 200 /\ h.decodes THEN h.json ELSE None

\* lines of the try body of chat() (100-126), get_food_data's lines outside
\* and after its own try included
TryBody == {"l102", "l105", "gfd_pre", "gfd_except", "l110", "l111",
            "l118", "l124", "gen_wait"}

\* where control goes when timeout_handler raises TimeoutException at line p
AfterTimeout(p) ==
    CASE p \in TryBody            -> "l128"
      [] p = "gfd_try"            -> "gfd_except"
      [] p \in {"l128", "l131"}   -> "l136"
      [] OTHER                    -> "done"

\* a finally block that does not cancel the alarm
AlarmKept(a) == a

\* the alarm after signal.alarm(0) (line 136)
AlarmAfterCancel(a) == NoAlarm

\* the alarm after request r ran signal.alarm(15) (line 102)
AlarmAfterArm(a, r) == r

---------------------------------------------------------------------------
(* State *)

InitHandler ==
    /\ pc = [r \in Reqs |-> "idle"]
    /\ body = [r \in Reqs |-> NoBody]
    /\ user_input = [r \in Reqs |-> Unset]
    /\ food_data = [r \in Reqs |-> None]
    /\ reply = [r \in Reqs |-> <<>>]
    /\ pending = [r \in Reqs |-> "none"]
    /\ outcome = [r \in Reqs |-> "none"]
    /\ response = [r \in Reqs |-> <<>>]
    /\ alarm = NoAlarm
    /\ nutCalls = [r \in Reqs |-> 0]
    /\ genCalls = [r \in Reqs |-> 0]
    /\ armed = [r \in Reqs |-> FALSE]
    /\ expiredAt = [r \in Reqs |-> "none"]
    /\ branch = [r \in Reqs |-> "none"]
    /\ lookup = [r \in Reqs |-> "none"]
    /\ genRaised = [r \in Reqs |-> FALSE]
    /\ misfire = FALSE
    /\ disturbed = [r \in Reqs |-> FALSE]

Init ==
    /\ InitHandler
    /\ fin = <<>>
    /\ fout = <<>>
    /\ fpc = "off"

Active(r) == pc[r] \notin {"idle", "done"}

\* chat() ends: the response or the escaping exception is final
Finish(r, o, text) ==
    /\ pc' = [pc EXCEPT ![r] = "done"]
    /\ outcome' = [outcome EXCEPT ![r] = o]
    /\ response' = [response EXCEPT ![r] = text]

---------------------------------------------------------------------------
(* chat(), one action per step; r is the request running it *)

\* a POST /chat arrives while no other request is being handled
Receive(r) ==
    /\ pc[r] = "idle"
    /\ \A q \in Reqs \ {r} : pc[q] = "idle"
    /\ \E b \in Bodies : body' = [body EXCEPT ![r] = b]
    /\ pc' = [pc EXCEPT ![r] = "l94"]
    /\ UNCHANGED <<user_input, food_data, reply, pending, outcome, response,
                   alarm, nutCalls, genCalls, armed, expiredAt, branch, lookup,
                   genRaised, misfire, disturbed, fmtVars>>

\* a POST /chat arrives, whatever the other requests are doing
ReceiveOverlapping(r) ==
    /\ pc[r] = "idle"
    /\ \E b \in OverlapBodies : body' = [body EXCEPT ![r] = b]
    /\ pc' = [pc EXCEPT ![r] = "l94"]
    /\ UNCHANGED <<user_input, food_data, reply, pending, outcome, response,
                   alarm, nutCalls, genCalls, armed, expiredAt, branch, lookup,
                   genRaised, misfire, disturbed, fmtVars>>

\* lines 94-95: data = request.json; user_input = data.get("message", "")
\* (None and a list have no .get: AttributeError, outside the try)
Extract(r) ==
    /\ pc[r] = "l94"
    /\ IF body[r].kind = "object"
       THEN /\ user_input' = [user_input EXCEPT ![r] =
                   IF body[r].msg = Absent THEN JsonStr(<<>>) ELSE body[r].msg]
            /\ pc' = [pc EXCEPT ![r] = "l97"]
            /\ UNCHANGED <<outcome, response>>
       ELSE /\ Finish(r, "escaped", <<>>)
            /\ UNCHANGED user_input
    /\ UNCHANGED <<body, food_data, reply, pending, alarm, nutCalls, genCalls,
                   armed, expiredAt, branch, lookup, genRaised, misfire,
                   disturbed, fmtVars>>

\* lines 97-98
Validate(r) ==
    /\ pc[r] = "l97"
    /\ IF Falsy(user_input[r])
       THEN Finish(r, "400", <<>>)
       ELSE /\ pc' = [pc EXCEPT ![r] = "l102"]
            /\ UNCHANGED <<outcome, response>>
    /\ UNCHANGED <<body, user_input, food_data, reply, pending, alarm, nutCalls,
                   genCalls, armed, expiredAt, branch, lookup, genRaised,
                   misfire, disturbed, fmtVars>>

\* line 102: signal.alarm(15) replaces whatever alarm was pending
Arm(r) ==
    /\ pc[r] = "l102"
    /\ alarm' = AlarmAfterArm(alarm, r)
    /\ armed' = [armed EXCEPT ![r] = TRUE]
    /\ disturbed' = [q \in Reqs |-> disturbed[q] \/ (alarm = q /\ q # r)]
    /\ pc' = [pc EXCEPT ![r] = "l105"]
    /\ UNCHANGED <<body, user_input, food_data, reply, pending, outcome,
                   response, nutCalls, genCalls, expiredAt, branch, lookup,
                   genRaised, misfire, fmtVars>>

\* lines 105-106 (a message that is not text has no .lower: AttributeError)
Classify(r) ==
    /\ pc[r] = "l105"
    /\ IF user_input[r].t # "str"
       THEN /\ pc' = [pc EXCEPT ![r] = "l131"]
            /\ UNCHANGED branch
       ELSE IF IsNutritionQuery(user_input[r].s)
       THEN /\ pc' = [pc EXCEPT ![r] = "gfd_pre"]
            /\ branch' = [branch EXCEPT ![r] = "nutrition"]
       ELSE /\ pc' = [pc EXCEPT ![r] = "l124"]
            /\ branch' = [branch EXCEPT ![r] = "direct"]
    /\ UNCHANGED <<body, user_input, food_data, reply, pending, outcome,
                   response, alarm, nutCalls, genCalls, armed, expiredAt,
                   lookup, genRaised, misfire, disturbed, fmtVars>>

\* line 108 and lines 67-75: get_food_data issues requests.get
GfdStart(r) ==
    /\ pc[r] = "gfd_pre"
    /\ nutCalls' = [nutCalls EXCEPT ![r] = @ + 1]
    /\ pc' = [pc EXCEPT ![r] = "gfd_try"]
    /\ UNCHANGED <<body, user_input, food_data, reply, pending, outcome,
                   response, alarm, genCalls, armed, expiredAt, branch, lookup,
                   genRaised, misfire, disturbed, fmtVars>>

\* lines 75-78: requests.get ends; a raise (of requests.get or of res.json())
\* goes to the bare except
GfdReturn(r) ==
    /\ pc[r] = "gfd_try"
    /\ \E h \in HttpResults :
         IF h.raises \/ (h.status = 200 /\ ~h.decodes)
         THEN /\ pc' = [pc EXCEPT ![r] = "gfd_except"]
              /\ UNCHANGED <<food_data, lookup>>
         ELSE /\ food_data' = [food_data EXCEPT ![r] = FoodDataOf(h)]
              /\ lookup' = [lookup EXCEPT ![r] = "returned"]
              /\ pc' = [pc EXCEPT ![r] = "l110"]
    /\ UNCHANGED <<body, user_input, reply, pending, outcome, response, alarm,
                   nutCalls, genCalls, armed, expiredAt, branch, genRaised,
                   misfire, disturbed, fmtVars>>

\* lines 79-80: except: return None
GfdExcept(r) ==
    /\ pc[r] = "gfd_except"
    /\ food_data' = [food_data EXCEPT ![r] = None]
    /\ lookup' = [lookup EXCEPT ![r] = "returned"]
    /\ pc' = [pc EXCEPT ![r] = "l110"]
    /\ UNCHANGED <<body, user_input, reply, pending, outcome, response, alarm,
                   nutCalls, genCalls, armed, expiredAt, branch, genRaised,
                   misfire, disturbed, fmtVars>>

\* line 110
CheckRecord(r) ==
    /\ pc[r] = "l110"
    /\ pc' = [pc EXCEPT ![r] = IF RecordFound(food_data[r]) THEN "l111" ELSE "l118"]
    /\ UNCHANGED <<body, user_input, food_data, reply, pending, outcome,
                   response, alarm, nutCalls, genCalls, armed, expiredAt,
                   branch, lookup, genRaised, misfire, disturbed, fmtVars>>

\* lines 111-116 (a quantity that is not a number cannot be formatted)
BuildReply(r) ==
    /\ pc[r] = "l111"
    /\ IF food_data[r].numeric
       THEN /\ reply' = [reply EXCEPT ![r] = FormatReply(food_data[r])]
            /\ pending' = [pending EXCEPT ![r] = "normal"]
            /\ pc' = [pc EXCEPT ![r] = "l136"]
       ELSE /\ pc' = [pc EXCEPT ![r] = "l131"]
            /\ UNCHANGED <<reply, pending>>
    /\ UNCHANGED <<body, user_input, food_data, outcome, response, alarm,
                   nutCalls, genCalls, armed, expiredAt, branch, lookup,
                   genRaised, misfire, disturbed, fmtVars>>

\* lines 118-120 and 124-126: model.generate_content is called
GenCall(r) ==
    /\ pc[r] \in {"l118", "l124"}
    /\ genCalls' = [genCalls EXCEPT ![r] = @ + 1]
    /\ pc' = [pc EXCEPT ![r] = "gen_wait"]
    /\ UNCHANGED <<body, user_input, food_data, reply, pending, outcome,
                   response, alarm, nutCalls, armed, expiredAt, branch, lookup,
                   genRaised, misfire, disturbed, fmtVars>>

\* the generative call returns text
GenReturn(r) ==
    /\ pc[r] = "gen_wait"
    /\ \E t \in GenTexts : reply' = [reply EXCEPT ![r] = t]
    /\ pending' = [pending EXCEPT ![r] = "normal"]
    /\ pc' = [pc EXCEPT ![r] = "l136"]
    /\ UNCHANGED <<body, user_input, food_data, outcome, response, alarm,
                   nutCalls, genCalls, armed, expiredAt, branch, lookup,
                   genRaised, misfire, disturbed, fmtVars>>

\* the generative call raises an ordinary exception
GenRaise(r) ==
    /\ pc[r] = "gen_wait"
    /\ genRaised' = [genRaised EXCEPT ![r] = TRUE]
    /\ pc' = [pc EXCEPT ![r] = "l131"]
    /\ UNCHANGED <<body, user_input, food_data, reply, pending, outcome,
                   response, alarm, nutCalls, genCalls, armed, expiredAt,
                   branch, lookup, misfire, disturbed, fmtVars>>

\* lines 128-129
ExceptTimeout(r) ==
    /\ pc[r] = "l128"
    /\ pending' = [pending EXCEPT ![r] = "timeout200"]
    /\ pc' = [pc EXCEPT ![r] = "l136"]
    /\ UNCHANGED <<body, user_input, food_data, reply, outcome, response,
                   alarm, nutCalls, genCalls, armed, expiredAt, branch, lookup,
                   genRaised, misfire, disturbed, fmtVars>>

\* lines 131-133
ExceptGeneric(r) ==
    /\ pc[r] = "l131"
    /\ pending' = [pending EXCEPT ![r] = "error500"]
    /\ pc' = [pc EXCEPT ![r] = "l136"]
    /\ UNCHANGED <<body, user_input, food_data, reply, outcome, response,
                   alarm, nutCalls, genCalls, armed, expiredAt, branch, lookup,
                   genRaised, misfire, disturbed, fmtVars>>

\* lines 135-136: signal.alarm(0), then the pending return or raise happens
Finally(r) ==
    /\ pc[r] = "l136"
    /\ alarm' = AlarmAfterCancel(alarm)
    /\ disturbed' = [q \in Reqs |-> disturbed[q] \/ (alarm = q /\ q # r)]
    /\ IF pending[r] = "normal"
       THEN /\ pc' = [pc EXCEPT ![r] = "l138"]
            /\ UNCHANGED <<outcome, response>>
       ELSE Finish(r, IF pending[r] = "raise" THEN "escaped" ELSE pending[r], <<>>)
    /\ UNCHANGED <<body, user_input, food_data, reply, pending, nutCalls,
                   genCalls, armed, expiredAt, branch, lookup, genRaised,
                   misfire, fmtVars>>

\* line 138
Return(r) ==
    /\ pc[r] = "l138"
    /\ Finish(r, "ok200", CleanResponse(reply[r]))
    /\ UNCHANGED <<body, user_input, food_data, reply, pending, alarm, nutCalls,
                   genCalls, armed, expiredAt, branch, lookup, genRaised,
                   misfire, disturbed, fmtVars>>

\* lines 36-37: the pending alarm expires while request r is running;
\* timeout_handler raises TimeoutException at r's current line
Fire(r) ==
    /\ alarm # NoAlarm
    /\ Active(r)
    /\ alarm' = NoAlarm
    /\ misfire' = (misfire \/ alarm # r)
    /\ expiredAt' = [expiredAt EXCEPT ![r] = IF @ = "none" THEN pc[r] ELSE @]
    /\ IF AfterTimeout(pc[r]) = "done"
       THEN /\ Finish(r, "escaped", <<>>)
            /\ UNCHANGED pending
       ELSE /\ pc' = [pc EXCEPT ![r] = AfterTimeout(pc[r])]
            /\ pending' = [pending EXCEPT ![r] =
                              IF pc[r] \in {"l128", "l131"} THEN "raise" ELSE @]
            /\ UNCHANGED <<outcome, response>>
    /\ UNCHANGED <<body, user_input, food_data, reply, nutCalls, genCalls,
                   armed, branch, lookup, genRaised, disturbed, fmtVars>>

\* the response has been sent; the slot serves the next request
Recycle(r) ==
    /\ pc[r] = "done"
    /\ pc' = [pc EXCEPT ![r] = "idle"]
    /\ body' = [body EXCEPT ![r] = NoBody]
    /\ user_input' = [user_input EXCEPT ![r] = Unset]
    /\ food_data' = [food_data EXCEPT ![r] = None]
    /\ reply' = [reply EXCEPT ![r] = <<>>]
    /\ pending' = [pending EXCEPT ![r] = "none"]
    /\ outcome' = [outcome EXCEPT ![r] = "none"]
    /\ response' = [response EXCEPT ![r] = <<>>]
    /\ nutCalls' = [nutCalls EXCEPT ![r] = 0]
    /\ genCalls' = [genCalls EXCEPT ![r] = 0]
    /\ armed' = [armed EXCEPT ![r] = FALSE]
    /\ expiredAt' = [expiredAt EXCEPT ![r] = "none"]
    /\ branch' = [branch EXCEPT ![r] = "none"]
    /\ lookup' = [lookup EXCEPT ![r] = "none"]
    /\ genRaised' = [genRaised EXCEPT ![r] = FALSE]
    /\ disturbed' = [disturbed EXCEPT ![r] = FALSE]
    /\ UNCHANGED <<alarm, misfire, fmtVars>>

Step(r) ==
    \/ Extract(r)
    \/ Validate(r)
    \/ Arm(r)
    \/ Classify(r)
    \/ GfdStart(r)
    \/ GfdReturn(r)
    \/ GfdExcept(r)
    \/ CheckRecord(r)
    \/ BuildReply(r)
    \/ GenCall(r)
    \/ GenReturn(r)
    \/ GenRaise(r)
    \/ ExceptTimeout(r)
    \/ ExceptGeneric(r)
    \/ Finally(r)
    \/ Return(r)
    \/ Fire(r)
    \/ Recycle(r)

\* one request at a time (the handler runs in the process's main thread)
Next == \E r \in Reqs : Receive(r) \/ Step(r)

Spec == Init /\ [][Next]_vars

\* requests overlap in one process
NextOverlap == \E r \in Reqs : ReceiveOverlapping(r) \/ Step(r)

SpecOverlap == Init /\ [][NextOverlap]_vars

---------------------------------------------------------------------------
(* clean_response on its own: the argument is drawn, the function applied *)

FormatAlphabet == {"a", " ", "\n", "*", "."}

RECURSIVE SeqsUpTo(_, _)
SeqsUpTo(A, n) ==
    IF n = 0 THEN {<<>>}
    ELSE LET shorter == SeqsUpTo(A, n - 1)
         IN  shorter \cup {Append(x, c) : x \in shorter, c \in A}

ShortTexts == SeqsUpTo(FormatAlphabet, MaxShortLen)

ExampleTexts ==
    { <<"a","\n"," ","\n","b">>,
      <<"a","\n","\n","\n","b">>,
      <<"*","*","b","o","l","d","*","*"," ","a","n","d"," ","*","i","t","*">>,
      <<"a"," "," ","b","\t","\t","c">> }

\* n characters "a", with c1 at position p1 and c2 at position p2
LongText(n, p1, c1, p2, c2) ==
    [i \in 1..n |-> IF i = p1 THEN c1 ELSE IF i = p2 THEN c2 ELSE "a"]

\* positions around the 250-character cut and around the start of its
\* last 20 characters
CutPositions ==
    { MaxReplyLen - TailWindow - 1, MaxReplyLen - TailWindow,
      MaxReplyLen - TailWindow + 1, MaxReplyLen - 10, MaxReplyLen - 1,
      MaxReplyLen, MaxReplyLen + 1 }

LongTexts ==
    { LongText(n, p1, c1, p2, c2) :
        n \in {MaxReplyLen, MaxReplyLen + 1, MaxReplyLen + 50},
        p1 \in CutPositions, c1 \in {".", "!", "?", " "},
        p2 \in CutPositions, c2 \in {".", "!", "?", " ", "a"} }

FormatInputs == ShortTexts \cup ExampleTexts \cup LongTexts

FormatInit ==
    /\ InitHandler
    /\ fin \in FormatInputs
    /\ fout = <<>>
    /\ fpc = "input"

\* fout = clean_response(fin)
ApplyCleanResponse ==
    /\ fpc = "input"
    /\ fout' = CleanResponse(fin)
    /\ fpc' = "done"
    /\ UNCHANGED <<fin, handlerVars>>

FormatNext == ApplyCleanResponse

FormatSpec == FormatInit /\ [][FormatNext]_vars

---------------------------------------------------------------------------
(* Properties *)

FixedOutcomes == {"400", "timeout200", "error500", "ok200"}

\* lines at which the request has not produced its reply yet
BeforeReply == TryBody \cup {"gfd_try"}

\* C1: nothing escapes the request handler: every finished request ended
\* with one of the four fixed outcomes (400, 200 took-too-long, 500,
\* 200 cleaned reply), never with an exception propagating to the framework.
C1_NothingEscapes ==
    \A r \in Reqs : pc[r] = "done" => outcome[r] \in FixedOutcomes

\* C2: if the deadline of a request elapses before its reply is produced,
\* then whichever call was in flight, the request answers the fixed
\* took-too-long reply (status 200), and it is never again waiting on an
\* external call.
C2_DeadlineEndsRequest ==
    \A r \in Reqs :
        expiredAt[r] \in BeforeReply =>
            /\ pc[r] \notin {"gfd_try", "gen_wait"}
            /\ (pc[r] = "done" => outcome[r] = "timeout200")

\* C3: the deadline is scoped per request: with overlapping requests, no
\* alarm expires outside the request that armed it, and no request's pending
\* alarm is re-armed or cancelled by another request.
C3_DeadlinePerRequest ==
    /\ ~misfire
    /\ \A r \in Reqs : ~disturbed[r]

C4_EmptyOrAbsent(b) ==
    b.kind = "object" /\ (b.msg = Absent \/ b.msg = JsonStr(<<>>))

\* C4: a request (a JSON object) whose message is empty or absent is answered
\* 400 'Please ask something.'; it never gets past the validation, calls
\* neither backend and does not arm the deadline.
C4_EmptyMessageRejected ==
    \A r \in Reqs :
        C4_EmptyOrAbsent(body[r]) =>
            /\ pc[r] \in {"l94", "l97", "done"}
            /\ nutCalls[r] = 0
            /\ genCalls[r] = 0
            /\ ~armed[r]
            /\ (pc[r] = "done" => outcome[r] = "400")

C4_Witness ==
    \E r \in Reqs :
        /\ pc[r] = "done"
        /\ body[r] = [kind |-> "object", msg |-> Absent]
        /\ outcome[r] = "400"

\* get_food_data returned a record with the nutrient fields
C5_Found(r) ==
    /\ lookup[r] = "returned"
    /\ ~food_data[r].isNone
    /\ "totalNutrients" \in food_data[r].has

\* get_food_data returned no record, or one without the nutrient fields
C5_Unavailable(r) ==
    /\ lookup[r] = "returned"
    /\ (food_data[r].isNone \/ "totalNutrients" \notin food_data[r].has)

\* what C5 says with either reading of the unavailable case
C5_Common(r) ==
    /\ nutCalls[r] <= 1
    /\ genCalls[r] <= 1
    /\ (branch[r] = "nutrition" /\ lookup[r] # "returned" => genCalls[r] = 0)
    /\ (branch[r] = "nutrition" /\ C5_Found(r) =>
            /\ genCalls[r] = 0
            /\ pc[r] \notin {"l118", "gen_wait"}
            /\ (outcome[r] = "ok200" =>
                    response[r] = CleanResponse(FormatReply(food_data[r]))))

\* C5 as stated: in the nutrition branch the generative backend is called
\* exactly when the lookup is unavailable: never when a record is found,
\* exactly once when it is unavailable; no backend is called twice.
C5_FallbackExactlyOnce ==
    \A r \in Reqs :
        /\ C5_Common(r)
        /\ (pc[r] = "done" /\ branch[r] = "nutrition" /\ C5_Unavailable(r) =>
                genCalls[r] = 1)

\* C5 amended: as above, but when the lookup is unavailable the generative
\* backend is called exactly once unless the deadline expires between the
\* lookup's return and the call; then it is not called and the request
\* answers took-too-long.
C5_FallbackUnlessDeadline ==
    \A r \in Reqs :
        /\ C5_Common(r)
        /\ (pc[r] = "done" /\ branch[r] = "nutrition" /\ C5_Unavailable(r) =>
                \/ genCalls[r] = 1
                \/ (genCalls[r] = 0 /\ outcome[r] = "timeout200"))

C5_Witness ==
    \E r \in Reqs :
        /\ pc[r] = "done"
        /\ branch[r] = "nutrition"
        /\ C5_Unavailable(r)
        /\ ~food_data[r].isNone
        /\ genCalls[r] = 1
        /\ outcome[r] = "ok200"

\* C6: a generative call that raises an ordinary exception is answered 500
\* 'Something went wrong'; the 500 reply is only given for an ordinary
\* exception and the took-too-long reply only for an expired deadline.
C6_BackendErrorIs500 ==
    \A r \in Reqs :
        pc[r] = "done" =>
            /\ (genRaised[r] => outcome[r] = "error500")
            /\ (outcome[r] = "timeout200" => expiredAt[r] # "none")
            /\ (outcome[r] = "error500" =>
                    \/ genRaised[r]
                    \/ user_input[r].t # "str"
                    \/ ~food_data[r].numeric)

C7_SpecKeywords ==
    { <<"c","a","l","o","r","i","e">>,
      <<"n","u","t","r","i","t","i","o","n">>,
      <<"p","r","o","t","e","i","n">>,
      <<"f","a","t">>,
      <<"c","a","r","b","s">>,
      <<"v","i","t","a","m","i","n">>,
      <<"i","n","g","r","e","d","i","e","n","t">>,
      <<"f","o","o","d">> }

C7_SixKeywords ==
    C7_SpecKeywords \ { <<"i","n","g","r","e","d","i","e","n","t">>,
                        <<"f","o","o","d">> }

C7_SameLetter(a, b) ==
    \/ a = b
    \/ \E i \in 1..26 : {a, b} = {UpperCase[i], LowerCase[i]}

\* x contains a keyword of K, compared case-insensitively
C7_Mentions(x, K) ==
    \E w \in K : \E i \in 1..(Len(x) - Len(w) + 1) :
        \A k \in 1..Len(w) : C7_SameLetter(x[i + k - 1], w[k])

C7_NutritionLines == {"gfd_pre", "gfd_try", "gfd_except", "l110", "l111", "l118"}

C7_Routing(K) ==
    \A r \in Reqs :
        (user_input[r].t = "str" /\ user_input[r].s # <<>>) =>
            LET hit == C7_Mentions(user_input[r].s, K)
            IN  /\ (branch[r] = "nutrition" => hit)
                /\ (branch[r] = "direct" => ~hit)
                /\ (pc[r] \in C7_NutritionLines => hit /\ branch[r] = "nutrition")
                /\ (pc[r] = "l124" => ~hit /\ branch[r] = "direct")
                /\ (~hit => nutCalls[r] = 0)

\* C7 as stated: a non-empty message goes to the nutrition branch exactly
\* when it contains, case-insensitively, one of calorie, nutrition, protein,
\* fat, carbs, vitamin, ingredient, food; any other message goes to the
\* direct-AI branch and triggers no nutrition lookup.
C7_RoutingEightKeywords == C7_Routing(C7_SpecKeywords)

\* C7 amended: the same with the keyword set calorie, nutrition, protein,
\* fat, carbs, vitamin.
C7_RoutingSixKeywords == C7_Routing(C7_SixKeywords)

C7_Witness ==
    \E r \in Reqs :
        /\ user_input[r] = JsonStr(<<"F","A","T","?">>)
        /\ branch[r] = "nutrition"
        /\ nutCalls[r] = 1

C10_CallLines == {"gfd_pre", "gfd_try", "gfd_except", "l110", "l111", "l118",
                  "l124", "gen_wait"}

\* C10: the deadline brackets the external calls: a request has armed the
\* alarm before it starts an external call, its alarm is no longer pending
\* once the handler has passed the finally block on any path, and no alarm
\* is pending while no request is being handled.
C10_DeadlineBracketsCalls ==
    /\ \A r \in Reqs :
           (nutCalls[r] > 0 \/ genCalls[r] > 0 \/ pc[r] \in C10_CallLines)
               => armed[r]
    /\ \A r \in Reqs : pc[r] \in {"l138", "done"} => alarm # r
    /\ ((\A r \in Reqs : ~Active(r)) => alarm = NoAlarm)

C10_Witness ==
    \E r \in Reqs :
        /\ pc[r] = "done"
        /\ armed[r]
        /\ genCalls[r] = 1
        /\ outcome[r] \in {"ok200", "error500", "timeout200"}
        /\ alarm = NoAlarm

C8_NoWhitespaceRun(t) ==
    \A i \in 1..(Len(t) - 1) :
        ~(t[i] \in Whitespace /\ t[i + 1] \in Whitespace)

\* C8: for a non-empty text, clean_response returns a text without newlines
\* and without a run of two or more whitespace characters.
C8_WhitespaceCollapsed ==
    (fpc = "done" /\ fin # <<>>) =>
        /\ ~HasChar(fout, "\n")
        /\ C8_NoWhitespaceRun(fout)

C9_Terminators == {".", "!", "?"}

\* the prefix cut at, and including, the latest terminator of its last
\* TailWindow characters; the prefix itself when there is none
C9_CutAtLatest(p) ==
    LET T == {i \in 1..Len(p) :
                 i > Len(p) - TailWindow /\ p[i] \in C9_Terminators}
    IN  IF T = {} THEN p
        ELSE SubSeq(p, 1, CHOOSE i \in T : \A k \in T : k <= i)

\* C9: when the cleaned text is longer than 250 characters, clean_response
\* returns its first 250 characters cut at, and including, the latest of
\* '.', '!', '?' in the trailing window, or the 250 characters when the
\* window has none; the result has at most 250 characters and no
\* surrounding whitespace.
C9_CutAtLatestTerminator ==
    (fpc = "done" /\ Len(CleanBody(fin)) > MaxReplyLen) =>
        /\ fout = C9_CutAtLatest(SubSeq(CleanBody(fin), 1, MaxReplyLen))
        /\ Len(fout) <= MaxReplyLen
        /\ fout = Strip(fout)

=============================================================================
